---- MODULE Spec2Model ----
(***************************************************************************)
(* Flexural design and capacity check of a rectangular reinforced-concrete *)
(* section (src/app.py): design_doubly_reinforced, check_section_capacity  *)
(* and the helpers _calc_effective_depth, _alpha_s, _alpha_s_max and       *)
(* _solve_xi.                                                              *)
(*                                                                         *)
(* Numbers.  The program computes in Python floats.  The model computes    *)
(* the same expressions, in the same order, in exact arithmetic.  A        *)
(* rational is a signed integer over a positive natural; integers are of   *)
(* arbitrary precision (sequences of base-10000 limbs, least significant   *)
(* first), because moments in N*mm exceed the integers of the model        *)
(* checker.  The one irrational operation, math.sqrt in _solve_xi, is kept *)
(* symbolic: a value computed from it is a surd r + s*sqrt(d) with r, s, d *)
(* rational.  Rounding, overflow to inf and NaN are therefore outside the  *)
(* model.  Python's exceptions are inside it: a float division by zero     *)
(* raises ZeroDivisionError, and _solve_xi raises ValueError.              *)
(*                                                                         *)
(* A Python function body is a sequence of assignments; each is modelled   *)
(* by an operator that receives the values assigned so far as parameters   *)
(* and passes the next one on.                                             *)
(***************************************************************************)
EXTENDS Integers, Sequences, FiniteSets, TLC

\* ------------------------------------------------------------ naturals
BASE == 100 * 100

RECURSIVE NTrim(_)
NTrim(a) ==
    IF a = <<>> THEN <<>>
    ELSE IF a[Len(a)] = 0 THEN NTrim(SubSeq(a, 1, Len(a) - 1))
    ELSE a

RECURSIVE NFromInt(_)
NFromInt(i) == IF i = 0 THEN <<>> ELSE <<i % BASE>> \o NFromInt(i \div BASE)

RECURSIVE NAddC(_, _, _)
NAddC(a, b, c) ==
    IF a = <<>> /\ b = <<>> THEN (IF c = 0 THEN <<>> ELSE <<c>>)
    ELSE IF b = <<>> /\ c = 0 THEN a
    ELSE IF a = <<>> /\ c = 0 THEN b
    ELSE LET t == (IF a = <<>> THEN 0 ELSE a[1]) + (IF b = <<>> THEN 0 ELSE b[1]) + c
         IN  <<t % BASE>> \o NAddC(IF a = <<>> THEN a ELSE Tail(a),
                                   IF b = <<>> THEN b ELSE Tail(b),
                                   t \div BASE)

NAdd(a, b) == NAddC(a, b, 0)

\* a - b - c for a >= b + c, untrimmed
RECURSIVE NSubB(_, _, _)
NSubB(a, b, c) ==
    IF b = <<>> /\ c = 0 THEN a
    ELSE LET t == a[1] - (IF b = <<>> THEN 0 ELSE b[1]) - c
         IN  <<(t + BASE) % BASE>> \o NSubB(Tail(a),
                                            IF b = <<>> THEN b ELSE Tail(b),
                                            IF t < 0 THEN 1 ELSE 0)

NSub(a, b) == NTrim(NSubB(a, b, 0))

\* -1, 0, 1 as a < b, a = b, a > b; limbs compared from the most significant
RECURSIVE NCmpAt(_, _, _)
NCmpAt(a, b, i) ==
    IF i = 0 THEN 0
    ELSE IF a[i] < b[i] THEN -1
    ELSE IF a[i] > b[i] THEN 1
    ELSE NCmpAt(a, b, i - 1)

NCmp(a, b) ==
    IF Len(a) < Len(b) THEN -1
    ELSE IF Len(a) > Len(b) THEN 1
    ELSE NCmpAt(a, b, Len(a))

\* a * m + c for one limb m
RECURSIVE NMulS(_, _, _)
NMulS(a, m, c) ==
    IF a = <<>> THEN (IF c = 0 THEN <<>> ELSE <<c>>)
    ELSE LET t == a[1] * m + c
         IN  <<t % BASE>> \o NMulS(Tail(a), m, t \div BASE)

RECURSIVE NMul(_, _)
NMul(a, b) ==
    IF a = <<>> \/ b = <<>> THEN <<>>
    ELSE IF b = <<1>> THEN a
    ELSE IF a = <<1>> THEN b
    ELSE LET t == NMul(a, Tail(b))
         IN  NAdd(IF b[1] = 0 THEN <<>> ELSE NMulS(a, b[1], 0),
                  IF t = <<>> THEN <<>> ELSE <<0>> \o t)

\* a mod m and a div m for a small m (m * BASE within the integers)
RECURSIVE NModS(_, _)
NModS(a, m) == IF a = <<>> THEN 0 ELSE (NModS(Tail(a), m) * BASE + a[1]) % m

RECURSIVE NDivAt(_, _, _, _)
NDivAt(a, m, i, r) ==
    IF i = 0 THEN <<>>
    ELSE LET cur == r * BASE + a[i]
         IN  NDivAt(a, m, i - 1, cur % m) \o <<cur \div m>>

NDivS(a, m) == NTrim(NDivAt(a, m, Len(a), 0))

\* A natural below 21 * BASE: a divisor NModS and NDivS can take
NSmall(a) == Len(a) = 1 \/ (Len(a) = 2 /\ a[2] <= 20)

NToInt(a) == a[1] + (IF Len(a) = 2 THEN a[2] * BASE ELSE 0)

RECURSIVE Gcd(_, _)
Gcd(a, b) == IF b = 0 THEN a ELSE Gcd(b, a % b)

\* n / d in lower terms, n and d positive.  With a small n or d the fraction
\* is reduced by the greatest common divisor; otherwise the common factors
\* the inputs bring in (decimal literals, 360 = 2^3*3^2*5, 14.3 = 11*13/10,
\* 0.518 = 2*7*37/1000, ...) are cancelled.  Any common factor left changes
\* no value: rationals are compared with REq, never with =.
SmallPrimes == <<2, 5, 3, 7, 11, 13, 37>>

CancelBy(n, d, g) == IF g = 1 THEN <<n, d>> ELSE <<NDivS(n, g), NDivS(d, g)>>

RECURSIVE CancelPrimes(_, _, _)
CancelPrimes(n, d, k) ==
    IF k > Len(SmallPrimes) \/ NSmall(n) \/ NSmall(d) THEN <<n, d>>
    ELSE IF NModS(n, SmallPrimes[k]) = 0 /\ NModS(d, SmallPrimes[k]) = 0
         THEN CancelPrimes(NDivS(n, SmallPrimes[k]), NDivS(d, SmallPrimes[k]), k)
         ELSE CancelPrimes(n, d, k + 1)

CancelSmall(c) ==
    IF NSmall(c[2])
    THEN CancelBy(c[1], c[2], Gcd(NToInt(c[2]), NModS(c[1], NToInt(c[2]))))
    ELSE IF NSmall(c[1])
    THEN CancelBy(c[1], c[2], Gcd(NToInt(c[1]), NModS(c[2], NToInt(c[1]))))
    ELSE c

Cancel(n, d) == CancelSmall(CancelPrimes(n, d, 1))

\* ------------------------------------------------------------ integers
ZMk(sg, mg) == [sg |-> IF mg = <<>> THEN 0 ELSE sg, mg |-> mg]

ZInt(i) == IF i < 0 THEN ZMk(-1, NFromInt(-i)) ELSE ZMk(1, NFromInt(i))

ZNeg(a) == [sg |-> -a.sg, mg |-> a.mg]

ZAdd(a, b) ==
    IF a.sg = 0 THEN b
    ELSE IF b.sg = 0 THEN a
    ELSE IF a.sg = b.sg THEN ZMk(a.sg, NAdd(a.mg, b.mg))
    ELSE LET c == NCmp(a.mg, b.mg)
         IN  IF c = 0 THEN ZMk(0, <<>>)
             ELSE IF c > 0 THEN ZMk(a.sg, NSub(a.mg, b.mg))
             ELSE ZMk(b.sg, NSub(b.mg, a.mg))

ZMul(a, b) == ZMk(a.sg * b.sg, NMul(a.mg, b.mg))

\* ----------------------------------------------------------- rationals
\* n / d with n an integer and d a positive natural
RPack(sg, c) == [n |-> [sg |-> sg, mg |-> c[1]], d |-> c[2]]

RMk(n, d) ==
    IF n.sg = 0 THEN [n |-> n, d |-> <<1>>] ELSE RPack(n.sg, Cancel(n.mg, d))

ZR(i) == [n |-> ZInt(i), d |-> <<1>>]

RECURSIVE Pow10(_)
Pow10(k) == IF k = 0 THEN <<1>> ELSE NMulS(Pow10(k - 1), 10, 0)

\* the decimal literal m * 10^-k
Dec(m, k) == RMk(ZInt(m), Pow10(k))

R0 == ZR(0)

R1 == ZR(1)

RSign(a) == a.n.sg

RNeg(a) == [n |-> ZNeg(a.n), d |-> a.d]

\* the numerator of a - b over the denominator a.d * b.d
ZDiff(a, b) == ZAdd(ZMul(a.n, ZMk(1, b.d)), ZNeg(ZMul(b.n, ZMk(1, a.d))))

RAdd(a, b) == RMk(ZDiff(a, RNeg(b)), NMul(a.d, b.d))

RSub(a, b) == RMk(ZDiff(a, b), NMul(a.d, b.d))

RMul(a, b) == RMk(ZMul(a.n, b.n), NMul(a.d, b.d))

\* a / b for b # 0
RDiv(a, b) == RMk(ZMk(a.n.sg * b.n.sg, NMul(a.n.mg, b.d)), NMul(a.d, b.n.mg))

RCmp(a, b) == ZDiff(a, b).sg

REq(a, b) == RCmp(a, b) = 0
RLe(a, b) == RCmp(a, b) <= 0
RLt(a, b) == RCmp(a, b) < 0

\* --------------------------------------------------------------- surds
\* r + s*sqrt(d), d >= 0; s = 0 and d = 0 for a rational.  One call of the
\* program takes at most one square root, so the surds that meet in an
\* operation share their radicand.
S(r) == [r |-> r, s |-> R0, d |-> R0]

SNorm(r, s, d) ==
    IF RSign(s) = 0 \/ RSign(d) = 0 THEN S(r) ELSE [r |-> r, s |-> s, d |-> d]

Radicand(a, b) == IF RSign(a.s) = 0 THEN b.d ELSE a.d

SNeg(a) == [r |-> RNeg(a.r), s |-> RNeg(a.s), d |-> a.d]

SAdd(a, b) == SNorm(RAdd(a.r, b.r), RAdd(a.s, b.s), Radicand(a, b))

SSub(a, b) == SNorm(RSub(a.r, b.r), RSub(a.s, b.s), Radicand(a, b))

SMul(a, b) ==
    SNorm(RAdd(RMul(a.r, b.r), RMul(RMul(a.s, b.s), Radicand(a, b))),
          RAdd(RMul(a.r, b.s), RMul(a.s, b.r)),
          Radicand(a, b))

\* a / q for a rational q # 0
SDiv(a, q) == SNorm(RDiv(a.r, q), RDiv(a.s, q), a.d)

\* the sign of r + s*sqrt(d): where r and s pull apart, r^2 against s^2*d
SSignBy(a, c) == IF c = 0 THEN 0 ELSE IF c > 0 THEN RSign(a.r) ELSE RSign(a.s)

SSign(a) ==
    IF RSign(a.s) = 0 \/ RSign(a.d) = 0 THEN RSign(a.r)
    ELSE IF RSign(a.r) = 0 \/ RSign(a.r) = RSign(a.s) THEN RSign(a.s)
    ELSE SSignBy(a, RCmp(RMul(a.r, a.r), RMul(RMul(a.s, a.s), a.d)))

SCmp(a, b) == SSign(SSub(a, b))

SEq(a, b) == SCmp(a, b) = 0
SLe(a, b) == SCmp(a, b) <= 0
SLt(a, b) == SCmp(a, b) < 0

\* math.sqrt of a rational d >= 0
Sqrt(d) == SNorm(R0, R1, d)

\* ------------------------------------------------------------- program
Million == 1000000

Half == Dec(5, 1)

\* A call either returns a value or raises a Python exception.
Ret(v) == [ok |-> TRUE, val |-> v]

Raise(e) == [ok |-> FALSE, exc |-> e]

\* design or check left by an exception
Failure(e) == [mode |-> "error", exc |-> e]

_calc_effective_depth(h, a_s) == RSub(h, a_s)

\* line 29: the float division raises ZeroDivisionError on a zero divisor
alpha_s_quotient(M_Nmm, den) ==
    IF RSign(den) = 0 THEN Raise("ZeroDivisionError") ELSE Ret(RDiv(M_Nmm, den))

\* _alpha_s with the moment left in kN*m
alpha_s_without_unit_conversion(M, b, h0, f_c, alpha1) ==
    alpha_s_quotient(M, RMul(RMul(RMul(alpha1, f_c), b), RMul(h0, h0)))

\* M in kN*m
_alpha_s(M, b, h0, f_c, alpha1) ==
    alpha_s_quotient(RMul(M, ZR(Million)),
                     RMul(RMul(RMul(alpha1, f_c), b), RMul(h0, h0)))

\* _alpha_s_max with the factor 0.5 dropped
alpha_s_max_without_half(xi_b) == RMul(xi_b, RSub(R1, xi_b))

_alpha_s_max(xi_b) == RMul(xi_b, RSub(R1, RMul(Half, xi_b)))

\* lines 39-42: 1 - sqrt(disc), a negative disc clamped to 0
solve_xi_root(disc) == SSub(S(R1), Sqrt(IF RLt(disc, R0) THEN R0 ELSE disc))

\* _solve_xi with the upper end of the range excluded
solve_xi_upper_end_excluded(alpha_s) ==
    IF RLt(alpha_s, R0) \/ RLe(Half, alpha_s) THEN Raise("ValueError")
    ELSE Ret(solve_xi_root(RSub(R1, RMul(ZR(2), alpha_s))))

_solve_xi(alpha_s) ==
    IF RLt(alpha_s, R0) \/ RLt(Half, alpha_s) THEN Raise("ValueError")
    ELSE Ret(solve_xi_root(RSub(R1, RMul(ZR(2), alpha_s))))

\* the branch test with a strict comparison
single_branch_strict(alpha_s_val, alpha_s_lim) == RLt(alpha_s_val, alpha_s_lim)

\* the branch test with its operands exchanged
single_branch_exchanged(alpha_s_val, alpha_s_lim) == RLe(alpha_s_lim, alpha_s_val)

\* line 63: the singly reinforced branch is taken on alpha_s <= alpha_s_max
single_branch(alpha_s_val, alpha_s_lim) == RLe(alpha_s_val, alpha_s_lim)

\* line 66: alpha1 * f_c * b * x / f_y, for f_y # 0
single_As(inp, x) ==
    SDiv(SMul(S(RMul(RMul(inp.alpha1, inp.f_c), inp.b)), x), inp.f_y)

\* the singly reinforced capacity with the lever arm taken as h0 - x
single_M_capacity_full_depth(inp, h0, x) ==
    SDiv(SMul(SMul(S(RMul(RMul(inp.alpha1, inp.f_c), inp.b)), x),
              SSub(S(h0), x)),
         ZR(Million))

\* line 67: alpha1 * f_c * b * x * (h0 - 0.5 * x) / 1e6
single_M_capacity(inp, h0, x) ==
    SDiv(SMul(SMul(S(RMul(RMul(inp.alpha1, inp.f_c), inp.b)), x),
              SSub(S(h0), SMul(S(Half), x))),
         ZR(Million))

\* lines 66-79
design_single_result(inp, h0, alpha_s_val, alpha_s_lim, xi, x) ==
    IF RSign(inp.f_y) = 0 THEN Failure("ZeroDivisionError")
    ELSE [mode |-> "single", h0 |-> h0, alpha_s |-> alpha_s_val,
          alpha_s_max |-> alpha_s_lim, x |-> x, As |-> single_As(inp, x),
          As_prime |-> S(R0), M_capacity |-> single_M_capacity(inp, h0, x),
          extra |-> [xi |-> xi]]

\* line 65
design_single_solved(inp, h0, alpha_s_val, alpha_s_lim, sol) ==
    IF ~sol.ok THEN Failure(sol.exc)
    ELSE design_single_result(inp, h0, alpha_s_val, alpha_s_lim, sol.val,
                              SMul(sol.val, S(h0)))

\* line 64
design_single(inp, h0, alpha_s_val, alpha_s_lim) ==
    design_single_solved(inp, h0, alpha_s_val, alpha_s_lim, _solve_xi(alpha_s_val))

\* line 85: alpha1 * f_c * b * x * (h0 - 0.5 * x), in N*mm
double_Mc(inp, h0, x) ==
    RMul(RMul(RMul(RMul(inp.alpha1, inp.f_c), inp.b), x),
         RSub(h0, RMul(Half, x)))

\* the residual moment without its clamp at 0
residual_moment_unclamped(M_total_Nmm, Mc) == RSub(M_total_Nmm, Mc)

\* line 87: max(M_total_Nmm - Mc, 0.0)
residual_moment(M_total_Nmm, Mc) ==
    IF RLt(Mc, M_total_Nmm) THEN RSub(M_total_Nmm, Mc) ELSE R0

\* the lever arm with the sign of a_s_prime slipped
lever_arm_sum(h0, a_s_prime) == RAdd(h0, a_s_prime)

\* line 89
lever_arm(h0, a_s_prime) == RSub(h0, a_s_prime)

\* line 92: alpha1 * f_c * b * x / f_y, for f_y # 0
double_As1(inp, x) ==
    RDiv(RMul(RMul(RMul(inp.alpha1, inp.f_c), inp.b), x), inp.f_y)

\* the total tension steel without the ratio of the two strengths
total_tension_steel_plain(As1, As_prime, f_y_prime, f_y) == RAdd(As1, As_prime)

\* line 93: As1 + As_prime * f_y_prime / f_y, for f_y # 0
total_tension_steel(As1, As_prime, f_y_prime, f_y) ==
    RAdd(As1, RDiv(RMul(As_prime, f_y_prime), f_y))

\* lines 95-96
double_M_capacity(Mc, f_y_prime, As_prime, lever_arm_cs) ==
    RDiv(RAdd(Mc, RMul(RMul(f_y_prime, As_prime), lever_arm_cs)), ZR(Million))

\* lines 93-112
design_double_result(inp, h0, alpha_s_val, alpha_s_lim, x, Mc, delta_M, lever_arm_cs, As_prime, As1) ==
    [mode |-> "double", h0 |-> h0, alpha_s |-> alpha_s_val,
     alpha_s_max |-> alpha_s_lim, x |-> S(x),
     As |-> S(total_tension_steel(As1, As_prime, inp.f_y_prime, inp.f_y)),
     As_prime |-> S(As_prime),
     M_capacity |-> S(double_M_capacity(Mc, inp.f_y_prime, As_prime, lever_arm_cs)),
     extra |-> [xi |-> S(inp.xi_b),
                M_c_kNm |-> RDiv(Mc, ZR(Million)),
                delta_M_kNm |-> RDiv(delta_M, ZR(Million))]]

\* lines 90, 92: the two divisions, each raising on a zero divisor
design_double_steel(inp, h0, alpha_s_val, alpha_s_lim, x, Mc, delta_M, lever_arm_cs) ==
    IF RSign(RMul(inp.f_y_prime, lever_arm_cs)) = 0
    THEN Failure("ZeroDivisionError")
    ELSE IF RSign(inp.f_y) = 0 THEN Failure("ZeroDivisionError")
    ELSE design_double_result(inp, h0, alpha_s_val, alpha_s_lim, x, Mc,
             delta_M, lever_arm_cs,
             RDiv(delta_M, RMul(inp.f_y_prime, lever_arm_cs)),
             double_As1(inp, x))

\* lines 86-89
design_double_moments(inp, h0, alpha_s_val, alpha_s_lim, x, Mc) ==
    design_double_steel(inp, h0, alpha_s_val, alpha_s_lim, x, Mc,
                        residual_moment(RMul(inp.M, ZR(Million)), Mc),
                        lever_arm(h0, inp.a_s_prime))

\* line 85
design_double_depth(inp, h0, alpha_s_val, alpha_s_lim, x) ==
    design_double_moments(inp, h0, alpha_s_val, alpha_s_lim, x,
                          double_Mc(inp, h0, x))

\* lines 82-83
design_double(inp, h0, alpha_s_val, alpha_s_lim) ==
    design_double_depth(inp, h0, alpha_s_val, alpha_s_lim, RMul(inp.xi_b, h0))

\* lines 63-112
design_branch(inp, h0, al, alpha_s_lim) ==
    IF ~al.ok THEN Failure(al.exc)
    ELSE IF single_branch(al.val, alpha_s_lim)
    THEN design_single(inp, h0, al.val, alpha_s_lim)
    ELSE design_double(inp, h0, al.val, alpha_s_lim)

\* lines 59-60
design_at(inp, h0) ==
    design_branch(inp, h0,
                  _alpha_s(inp.M, inp.b, h0, inp.f_c, inp.alpha1),
                  _alpha_s_max(inp.xi_b))

design_doubly_reinforced(b, h, a_s, a_s_prime, M, f_c, f_y, f_y_prime, alpha1, xi_b) ==
    design_at([b |-> b, h |-> h, a_s |-> a_s, a_s_prime |-> a_s_prime,
               M |-> M, f_c |-> f_c, f_y |-> f_y, f_y_prime |-> f_y_prime,
               alpha1 |-> alpha1, xi_b |-> xi_b],
              _calc_effective_depth(h, a_s))

\* the compression depth solved from the equilibrium of the given steel
check_x_equilibrium(inp, h0) ==
    IF RSign(RMul(RMul(inp.alpha1, inp.f_c), inp.b)) = 0 THEN RMul(inp.xi_b, h0)
    ELSE RDiv(RSub(RMul(inp.f_y, inp.A_s), RMul(inp.f_y_prime, inp.A_s_prime)),
              RMul(RMul(inp.alpha1, inp.f_c), inp.b))

\* lines 130-131: the compression depth is the limiting one, whatever the steel
check_x(inp, h0) == RMul(inp.xi_b, h0)

\* lines 143-167
check_result(inp, h0, x, C_c, C_s, T_s, M_c, M_cs, M_capacity_kNm, al) ==
    IF ~al.ok THEN Failure(al.exc)
    ELSE [mode |-> "check", h0 |-> h0, alpha_s |-> al.val,
          alpha_s_max |-> _alpha_s_max(inp.xi_b), x |-> S(x),
          As |-> S(inp.A_s), As_prime |-> S(inp.A_s_prime),
          M_capacity |-> S(M_capacity_kNm),
          extra |-> [C_c |-> C_c, C_s |-> C_s, T_s |-> T_s,
                     C_total |-> RAdd(C_c, C_s),
                     unbalanced_force |-> RSub(T_s, RAdd(C_c, C_s)),
                     M_c_kNm |-> RDiv(M_c, ZR(Million)),
                     M_cs_kNm |-> RDiv(M_cs, ZR(Million)),
                     xi |-> S(inp.xi_b)]]

\* line 143
check_capacity(inp, h0, x, C_c, C_s, T_s, M_c, M_cs, M_capacity_kNm) ==
    check_result(inp, h0, x, C_c, C_s, T_s, M_c, M_cs, M_capacity_kNm,
                 _alpha_s(M_capacity_kNm, inp.b, h0, inp.f_c, inp.alpha1))

\* lines 140-141
check_moments(inp, h0, x, C_c, C_s, T_s, M_c, M_cs) ==
    check_capacity(inp, h0, x, C_c, C_s, T_s, M_c, M_cs,
                   RDiv(RAdd(M_c, M_cs), ZR(Million)))

\* lines 138-139
check_forces(inp, h0, x, C_c, C_s, T_s) ==
    check_moments(inp, h0, x, C_c, C_s, T_s,
                  RMul(C_c, RSub(h0, RMul(Half, x))),
                  RMul(C_s, RSub(h0, inp.a_s_prime)))

\* lines 133-135
check_depth(inp, h0, x) ==
    check_forces(inp, h0, x,
                 RMul(RMul(RMul(inp.alpha1, inp.f_c), inp.b), x),
                 RMul(inp.f_y_prime, inp.A_s_prime),
                 RMul(inp.f_y, inp.A_s))

check_at(inp, h0) == check_depth(inp, h0, check_x(inp, h0))

check_section_capacity(b, h, a_s, a_s_prime, A_s, A_s_prime, f_c, f_y, f_y_prime, alpha1, xi_b) ==
    check_at([b |-> b, h |-> h, a_s |-> a_s, a_s_prime |-> a_s_prime,
              A_s |-> A_s, A_s_prime |-> A_s_prime, f_c |-> f_c, f_y |-> f_y,
              f_y_prime |-> f_y_prime, alpha1 |-> alpha1, xi_b |-> xi_b],
             _calc_effective_depth(h, a_s))

\* --------------------------------------------------------------- state
\* sec   the section and its materials: b, h, a_s, a_s_prime, f_c, f_y,
\*       f_y_prime, alpha1, xi_b
\* op    the call made last: "none", "design", "check", "recheck",
\*       "roundtrip", "solve"
\* args  that call's own inputs: M for design; A_s, A_s_prime for a check;
\*       alpha_s for the solver
\* res   what the call returned: a SectionResult, or the exception raised
\* prev  the result of the call before it, kept by the two-call operations
VARIABLES sec, op, args, res, prev

vars == <<sec, op, args, res, prev>>

MaxMoment == 3
MaxSteel == 2
MaxAlphaTenths == 6

\* moments in kN*m: multiples of 100 of both signs, the worked examples'
\* 325, and 214.5, which puts alpha_s on alpha_s_max for h0 = 400, xi_b = 0.5
Moments == {ZR(100 * k) : k \in (0 - MaxMoment) .. MaxMoment}
               \cup {ZR(325), Dec(2145, 1)}

TensionSteel == {ZR(1300 * k) : k \in 0 .. MaxSteel}

CompressionSteel == {ZR(0), ZR(800)}

Alphas == {Dec(k, 1) : k \in (0 - 1) .. MaxAlphaTenths}
              \cup {Dec(375, 3), Dec(501, 3)}

\* The worked example's section, and every section that departs from it in
\* at most two parameters: a zero or negative width, h = a_s (h0 = 0),
\* h0 = 400, a_s_prime = h0, zero strengths, f_y # f_y_prime, xi_b = 0.5 and -0.5.
Nominal ==
    [b |-> ZR(250), h |-> ZR(500), a_s |-> Dec(625, 1), a_s_prime |-> ZR(40),
     f_c |-> Dec(143, 1), f_y |-> ZR(360), f_y_prime |-> ZR(360),
     alpha1 |-> ZR(1), xi_b |-> Dec(518, 3)]

Departures ==
    [b |-> {ZR(0), ZR(0 - 250)},
     h |-> {Dec(4625, 1), Dec(625, 1)},
     a_s |-> {},
     a_s_prime |-> {ZR(400), Dec(4375, 1)},
     f_c |-> {ZR(0)},
     f_y |-> {ZR(0), ZR(300)},
     f_y_prime |-> {ZR(0), ZR(300)},
     alpha1 |-> {ZR(0)},
     xi_b |-> {Dec(5, 1), Dec(0 - 5, 1)}]

Fields == DOMAIN Nominal

Variants(s) ==
    {s} \cup UNION {{[s EXCEPT ![f] = v] : v \in Departures[f]} : f \in Fields}

Sections == UNION {Variants(s) : s \in Variants(Nominal)}

NoArgs == [M |-> R0, A_s |-> R0, A_s_prime |-> R0, alpha_s |-> R0]

NoResult == [mode |-> "none"]

Init ==
    /\ sec \in Sections
    /\ op = "none"
    /\ args = NoArgs
    /\ res = NoResult
    /\ prev = NoResult

Design ==
    \E M \in Moments :
        /\ op' = "design"
        /\ args' = [NoArgs EXCEPT !.M = M]
        /\ res' = design_doubly_reinforced(sec.b, sec.h, sec.a_s, sec.a_s_prime,
                      M, sec.f_c, sec.f_y, sec.f_y_prime, sec.alpha1, sec.xi_b)
        /\ prev' = NoResult
        /\ UNCHANGED sec

Check ==
    \E A_s \in TensionSteel, A_s_prime \in CompressionSteel :
        /\ op' = "check"
        /\ args' = [NoArgs EXCEPT !.A_s = A_s, !.A_s_prime = A_s_prime]
        /\ res' = check_section_capacity(sec.b, sec.h, sec.a_s, sec.a_s_prime,
                      A_s, A_s_prime, sec.f_c, sec.f_y, sec.f_y_prime,
                      sec.alpha1, sec.xi_b)
        /\ prev' = NoResult
        /\ UNCHANGED sec

\* A second check of the section just checked, with another tension steel
\* area or another tension steel strength and nothing else changed.
Recheck ==
    /\ op = "check"
    /\ \E A_s \in TensionSteel, f_y \in {sec.f_y} \cup Departures.f_y :
        /\ (A_s = args.A_s) # (f_y = sec.f_y)
        /\ op' = "recheck"
        /\ args' = [args EXCEPT !.A_s = A_s]
        /\ sec' = [sec EXCEPT !.f_y = f_y]
        /\ prev' = res
        /\ res' = check_section_capacity(sec.b, sec.h, sec.a_s, sec.a_s_prime,
                      A_s, args.A_s_prime, sec.f_c, f_y, sec.f_y_prime,
                      sec.alpha1, sec.xi_b)

\* The steel a doubly reinforced design returned, checked on the same section.
RoundTrip ==
    /\ op = "design"
    /\ res.mode = "double"
    /\ op' = "roundtrip"
    /\ args' = [args EXCEPT !.A_s = res.As.r, !.A_s_prime = res.As_prime.r]
    /\ prev' = res
    /\ res' = check_section_capacity(sec.b, sec.h, sec.a_s, sec.a_s_prime,
                  res.As.r, res.As_prime.r, sec.f_c, sec.f_y, sec.f_y_prime,
                  sec.alpha1, sec.xi_b)
    /\ UNCHANGED sec

SolveXi ==
    \E alpha_s \in Alphas :
        LET sol == _solve_xi(alpha_s)
        IN  /\ op' = "solve"
            /\ args' = [NoArgs EXCEPT !.alpha_s = alpha_s]
            /\ res' = IF sol.ok THEN [mode |-> "xi", xi |-> sol.val]
                      ELSE Failure(sol.exc)
            /\ prev' = NoResult
            /\ UNCHANGED sec

Next == Design \/ Check \/ Recheck \/ RoundTrip \/ SolveXi

Spec == Init /\ [][Next]_vars

\* -------------------------------------------------------------- claims
\* The quantities the claims speak of, written out from the inputs of the
\* last call (sec, args) with the arithmetic alone.
DesignCalled == op = "design"

CheckCalled == op \in {"check", "recheck", "roundtrip"}

Returned == res.mode \in {"single", "double", "check"}

Failed(e) == res.mode = "error" /\ res.exc = e

Depth == RSub(sec.h, sec.a_s)

\* alpha1 * f_c * b * h0^2, the divisor of alpha_s
Divisor ==
    RMul(RMul(RMul(sec.alpha1, sec.f_c), sec.b), RMul(Depth, Depth))

ZeroDivisor ==
    \/ RSign(sec.b) = 0
    \/ RSign(sec.f_c) = 0
    \/ RSign(sec.alpha1) = 0
    \/ REq(sec.h, sec.a_s)

\* M * 1e6 / (alpha1 * f_c * b * h0^2), where the divisor is not zero
AlphaOfM == RDiv(RMul(args.M, ZR(Million)), Divisor)

AlphaMax == RMul(sec.xi_b, RSub(R1, RMul(Dec(5, 1), sec.xi_b)))

InSingleRange == RLe(R0, AlphaOfM) /\ RLe(AlphaOfM, AlphaMax)

AboveMax == RLt(AlphaMax, AlphaOfM)

\* the divisor of As_prime in the doubly reinforced branch
SteelDivisor == RMul(sec.f_y_prime, RSub(Depth, sec.a_s_prime))

Near(v, c, tol) == SLe(S(RSub(c, tol)), v) /\ SLe(v, S(RAdd(c, tol)))

\* C1 (as amended): design picks its branch by comparing alpha_s with
\* alpha_s_max: with 0 <= alpha_s <= alpha_s_max, equality included, and
\* f_y # 0 it returns mode 'single' with As_prime = 0; with alpha_s >
\* alpha_s_max, f_y # 0 and f_y_prime * (h0 - a_s_prime) # 0 it returns mode
\* 'double' with x = xi_b * h0; with a zero divisor in the branch taken it
\* raises ZeroDivisionError instead of returning.
C1_BranchSelection ==
    (DesignCalled /\ ~ZeroDivisor) =>
        /\ InSingleRange =>
              IF RSign(sec.f_y) # 0
              THEN res.mode = "single" /\ SEq(res.As_prime, S(R0))
              ELSE Failed("ZeroDivisionError")
        /\ AboveMax =>
              IF RSign(sec.f_y) # 0 /\ RSign(SteelDivisor) # 0
              THEN res.mode = "double" /\ SEq(res.x, S(RMul(sec.xi_b, Depth)))
              ELSE Failed("ZeroDivisionError")

\* alpha_s is exactly alpha_s_max and the design is singly reinforced
C1_Witness ==
    /\ DesignCalled
    /\ ~ZeroDivisor
    /\ REq(AlphaOfM, AlphaMax)
    /\ res.mode = "single"

\* C1 as stated: every input with 0 <= alpha_s <= alpha_s_max gets mode
\* 'single' with As_prime = 0, every input above gets 'double' with
\* x = xi_b * h0.
C1_AsStated ==
    (DesignCalled /\ ~ZeroDivisor) =>
        /\ InSingleRange => (res.mode = "single" /\ SEq(res.As_prime, S(R0)))
        /\ AboveMax =>
              (res.mode = "double" /\ SEq(res.x, S(RMul(sec.xi_b, Depth))))

\* C2: _solve_xi raises the out-of-range error (ValueError) for alpha_s < 0
\* and for alpha_s > 0.5; for alpha_s in [0, 0.5] it returns
\* xi = 1 - sqrt(1 - 2 * alpha_s), that is (1 - xi)^2 = 1 - 2 * alpha_s with
\* 1 - xi >= 0, which lies in [0, 1] and is 1 at alpha_s = 0.5.
C2_SolverContract ==
    op = "solve" =>
        IF RLt(args.alpha_s, R0) \/ RLt(Dec(5, 1), args.alpha_s)
        THEN Failed("ValueError")
        ELSE /\ res.mode = "xi"
             /\ SEq(SMul(SSub(S(R1), res.xi), SSub(S(R1), res.xi)),
                    S(RSub(R1, RMul(ZR(2), args.alpha_s))))
             /\ SLe(S(R0), res.xi)
             /\ SLe(res.xi, S(R1))
             /\ (REq(args.alpha_s, Dec(5, 1)) => SEq(res.xi, S(R1)))

\* the solver called at the upper end of its range
C2_Witness ==
    /\ op = "solve"
    /\ REq(args.alpha_s, Dec(5, 1))
    /\ res.mode = "xi"
    /\ SEq(res.xi, S(R1))

\* C3 (as amended): whenever design calls the solver the alpha_s it passes
\* satisfies alpha_s <= alpha_s_max <= 0.5, but it may be negative: design
\* fails with the out-of-range error exactly when alpha_s is defined,
\* alpha_s <= alpha_s_max and alpha_s < 0.
C3_SolverRangeInDesign ==
    DesignCalled =>
        /\ RLe(AlphaMax, Dec(5, 1))
        /\ Failed("ValueError") <=>
              (~ZeroDivisor /\ RLe(AlphaOfM, AlphaMax) /\ RLt(AlphaOfM, R0))
        /\ res.mode = "single" =>
              /\ RLe(R0, res.alpha_s)
              /\ RLe(res.alpha_s, AlphaMax)
              /\ REq(res.alpha_s, AlphaOfM)

\* design left by the solver's out-of-range error
C3_Witness ==
    /\ DesignCalled
    /\ Failed("ValueError")
    /\ RLt(args.M, R0)

\* C3 as stated: design never fails with the out-of-range error.
C3_AsStated == DesignCalled => ~Failed("ValueError")

C5_CompressionSteel ==
    /\ res.mode = "single" => SEq(res.As_prime, S(R0))
    /\ res.mode = "double" =>
          (SEq(res.As_prime, S(R0)) <=> RSign(Divisor) < 0)
    /\ res.mode = "check" => SEq(res.As_prime, S(args.A_s_prime))

\* a check of a section without compression steel
C5_Witness ==
    /\ op = "check"
    /\ res.mode = "check"
    /\ SEq(res.As_prime, S(R0))

\* C5 as stated: in every result As_prime = 0 if and only if mode = 'single'.
C5_AsStated ==
    Returned => (SEq(res.As_prime, S(R0)) <=> res.mode = "single")

\* the forces and the capacity of the check formulas, from the inputs
BlockForce ==
    RMul(RMul(RMul(sec.alpha1, sec.f_c), sec.b), RMul(sec.xi_b, Depth))

CompressionSteelForce == RMul(sec.f_y_prime, args.A_s_prime)

TensionSteelForce == RMul(sec.f_y, args.A_s)

CheckCapacity ==
    RDiv(RAdd(RMul(BlockForce,
                   RSub(Depth, RDiv(RMul(sec.xi_b, Depth), ZR(2)))),
              RMul(CompressionSteelForce, RSub(Depth, sec.a_s_prime))),
         ZR(Million))

\* the fields two checks of one section share whatever the tension steel
SameBut(p, r) ==
    /\ REq(p.h0, r.h0)
    /\ SEq(p.x, r.x)
    /\ REq(p.alpha_s, r.alpha_s)
    /\ REq(p.alpha_s_max, r.alpha_s_max)
    /\ SEq(p.M_capacity, r.M_capacity)
    /\ REq(p.extra.C_c, r.extra.C_c)
    /\ REq(p.extra.C_s, r.extra.C_s)
    /\ REq(p.extra.C_total, r.extra.C_total)
    /\ SEq(p.As_prime, r.As_prime)

CheckFormulas ==
    /\ SEq(res.x, S(RMul(sec.xi_b, RSub(sec.h, sec.a_s))))
    /\ SEq(res.M_capacity, S(CheckCapacity))
    /\ REq(res.extra.C_c, BlockForce)
    /\ REq(res.extra.C_s, CompressionSteelForce)
    /\ REq(res.extra.T_s, TensionSteelForce)
    /\ REq(res.extra.unbalanced_force,
           RSub(RSub(TensionSteelForce, BlockForce), CompressionSteelForce))
    /\ SEq(res.As, S(args.A_s))

\* C6 (as amended): check never solves the compression depth from the given
\* steel. For every input with alpha1 * f_c * b * (h - a_s)^2 # 0 it returns
\* x = xi_b * (h - a_s) and M_capacity = (C_c * (h0 - x/2) + C_s * (h0 -
\* a_s_prime)) / 1e6, with unbalanced_force = T_s - C_c - f_y_prime *
\* As_prime reported whatever its size; for the other inputs it raises
\* ZeroDivisionError whatever the steel. Two calls that differ only in As or
\* only in f_y both raise, or return the same h0, x, alpha_s, alpha_s_max,
\* M_capacity, C_c, C_s and C_total.
C6_CheckIgnoresSteel ==
    CheckCalled =>
        /\ IF ZeroDivisor THEN Failed("ZeroDivisionError")
           ELSE res.mode = "check" /\ CheckFormulas
        /\ op = "recheck" =>
              IF ZeroDivisor THEN prev = res
              ELSE /\ prev.mode = "check"
                   /\ SameBut(prev, res)
                   /\ ~REq(prev.extra.T_s, res.extra.T_s) =>
                          ~REq(prev.extra.unbalanced_force,
                               res.extra.unbalanced_force)

\* a second check with other tension steel: the unbalanced force changed
\* and is not zero
C6_Witness ==
    /\ op = "recheck"
    /\ res.mode = "check"
    /\ RSign(res.extra.unbalanced_force) # 0
    /\ ~REq(prev.extra.unbalanced_force, res.extra.unbalanced_force)
    /\ SEq(prev.x, res.x)

\* C6 as stated: for every input check returns x = xi_b * (h - a_s) and the
\* capacity of the formula, and two calls that differ only in the tension
\* steel return the same other fields.
C6_AsStated ==
    CheckCalled =>
        /\ res.mode = "check"
        /\ CheckFormulas
        /\ op = "recheck" => (prev.mode = "check" /\ SameBut(prev, res))

\* C7 (as amended): the alpha_s_max field returned by design and by check is
\* xi_b * (1 - 0.5 * xi_b), a function of xi_b only, and for xi_b = 0.518 it
\* is 0.518 * (1 - 0.259) = 0.383838.
C7_AlphaMaxValue ==
    Returned =>
        /\ REq(res.alpha_s_max,
               RMul(sec.xi_b, RSub(R1, RMul(Dec(5, 1), sec.xi_b))))
        /\ REq(sec.xi_b, Dec(518, 3)) => REq(res.alpha_s_max, Dec(383838, 6))

\* a design of a section with xi_b = 0.518 returned
C7_Witness ==
    /\ DesignCalled
    /\ Returned
    /\ REq(sec.xi_b, Dec(518, 3))

\* C7 as stated: for xi_b = 0.518 the field is 0.3816, to the four decimals
\* given.
C7_AsStated ==
    Returned =>
        /\ REq(res.alpha_s_max,
               RMul(sec.xi_b, RSub(R1, RMul(Dec(5, 1), sec.xi_b))))
        /\ REq(sec.xi_b, Dec(518, 3)) =>
              Near(S(res.alpha_s_max), Dec(3816, 4), Dec(5, 5))

\* Scenario 1: b = 250, h = 500, a_s = 62.5, a_s_prime = 40, M = 200,
\* f_c = 14.3, f_y = 360, f_y_prime = 360, alpha1 = 1.0, xi_b = 0.518
Scenario1 == DesignCalled /\ sec = Nominal /\ args.M = ZR(200)

\* C8 (as amended): Scenario 1 returns h0 = 437.5, alpha_s ~ 0.2923, mode
\* 'single', xi ~ 0.3555, x ~ 155.5 mm and As ~ 1544 mm^2, each to the
\* digits given.
C8_Scenario1 ==
    Scenario1 =>
        /\ res.mode = "single"
        /\ REq(res.h0, Dec(4375, 1))
        /\ Near(S(res.alpha_s), Dec(2923, 4), Dec(5, 5))
        /\ Near(res.extra.xi, Dec(3555, 4), Dec(5, 5))
        /\ Near(res.x, Dec(1555, 1), Dec(5, 2))
        /\ Near(res.As, ZR(1544), Dec(5, 1))

\* Scenario 1 designed
C8_Witness == Scenario1 /\ res.mode = "single"

\* C8 as stated: alpha_s ~ 0.0753, xi ~ 0.0783, x ~ 34.3 mm, As ~ 341 mm^2.
C8_AsStated ==
    Scenario1 =>
        /\ res.mode = "single"
        /\ REq(res.h0, Dec(4375, 1))
        /\ Near(S(res.alpha_s), Dec(753, 4), Dec(5, 5))
        /\ Near(res.extra.xi, Dec(783, 4), Dec(5, 5))
        /\ Near(res.x, Dec(343, 1), Dec(5, 2))
        /\ Near(res.As, ZR(341), Dec(5, 1))

\* C9: the steel of a doubly reinforced design, checked on the same section
\* and materials, is in equilibrium (unbalanced_force = 0, T_s = C_c + C_s)
\* and gives the x and the M_capacity of the design.
C9_RoundTrip ==
    op = "roundtrip" =>
        /\ res.mode = "check"
        /\ RSign(res.extra.unbalanced_force) = 0
        /\ REq(res.extra.T_s, RAdd(res.extra.C_c, res.extra.C_s))
        /\ SEq(res.x, prev.x)
        /\ SEq(res.M_capacity, prev.M_capacity)
        /\ SEq(res.As, prev.As)
        /\ SEq(res.As_prime, prev.As_prime)

\* a round trip with compression steel and two different steel strengths
C9_Witness ==
    /\ op = "roundtrip"
    /\ res.mode = "check"
    /\ prev.mode = "double"
    /\ ~REq(sec.f_y, sec.f_y_prime)
    /\ RSign(args.A_s_prime) # 0

PositiveSection ==
    /\ RSign(sec.b) > 0
    /\ RSign(sec.f_c) > 0
    /\ RSign(sec.alpha1) > 0
    /\ RSign(sec.f_y_prime) > 0
    /\ RSign(Depth) > 0
    /\ RLt(sec.a_s_prime, Depth)

\* alpha1 * f_c * b * x * (h0 - x/2) for the x returned
BlockMoment ==
    SMul(SMul(S(RMul(RMul(sec.alpha1, sec.f_c), sec.b)), res.x),
         SSub(S(Depth), SDiv(res.x, ZR(2))))

\* C10: for positive b, f_c, alpha1, f_y_prime, h0 and h0 - a_s_prime, a
\* design that returns has M_capacity = M: in 'single' mode
\* alpha1 * f_c * b * x * (h0 - x/2) = M * 1e6, in 'double' mode
\* Mc + f_y_prime * As_prime * (h0 - a_s_prime) = M * 1e6; M_capacity is
\* never below M.
C10_CapacityMeetsDemand ==
    (DesignCalled /\ Returned /\ PositiveSection) =>
        /\ SEq(res.M_capacity, S(args.M))
        /\ SLe(S(args.M), res.M_capacity)
        /\ res.mode = "single" =>
              SEq(BlockMoment, S(RMul(args.M, ZR(Million))))
        /\ res.mode = "double" =>
              SEq(SAdd(BlockMoment,
                       SMul(S(RMul(sec.f_y_prime, RSub(Depth, sec.a_s_prime))),
                            res.As_prime)),
                  S(RMul(args.M, ZR(Million))))

\* a singly reinforced design with an irrational compression depth
C10_Witness ==
    /\ DesignCalled
    /\ PositiveSection
    /\ res.mode = "single"
    /\ RSign(args.M) > 0
    /\ RSign(res.x.s) # 0

====
